---- MODULE Spec2Model ----
(***************************************************************************)
(* Model of the event/booking core of the "deven" application:             *)
(*   - the normalization functions generateSlug, normalizeDate and         *)
(*     normalizeTime of the Event model,                                   *)
(*   - the Event and Booking schemas with their pre-save hooks and unique  *)
(*     indexes,                                                            *)
(*   - the POST /api/events handler (form -> upload -> Event.create),      *)
(*   - the createBooking server action (both versions in the sources).     *)
(* A JavaScript string is modelled as a sequence of one-character strings. *)
(***************************************************************************)
EXTENDS Integers, Sequences, FiniteSets, TLC

VARIABLES
    events,     \* the Event collection: a set of stored documents
    bookings,   \* the Booking collection: a set of stored documents
    assets,     \* the asset store (Cloudinary): the secure_urls of stored uploads
    post,       \* post[p]: locals and response of POST handler invocation p
    book,       \* book[b]: locals and result of createBooking invocation b
    nPosts,     \* number of POST requests received so far
    nCalls,     \* number of createBooking calls made so far
    fn,         \* the normalization function under evaluation ("none" outside the function specifications)
    arg,        \* its argument, a string
    out         \* its outcome: None before the call, then the returned string or the thrown Error

vars == <<events, bookings, assets, post, book, nPosts, nCalls, fn, arg, out>>

\* JavaScript values: undefined/null, a string, a File, an array of strings
None == [kind |-> "undefined"]
Str(chars) == [kind |-> "string", chars |-> chars]
File(name) == [kind |-> "File", name |-> name]
Arr(items) == [kind |-> "array", items |-> items]
Txt(text) == [kind |-> "string", text |-> text]   \* a string the model never takes apart

(***************************************************************************)
(* Characters and strings                                                  *)
(***************************************************************************)
Uppers == <<"A","B","C","D","E","F","G","H","I","J","K","L","M",
            "N","O","P","Q","R","S","T","U","V","W","X","Y","Z">>
Lowers == <<"a","b","c","d","e","f","g","h","i","j","k","l","m",
            "n","o","p","q","r","s","t","u","v","w","x","y","z">>
Digits == <<"0","1","2","3","4","5","6","7","8","9">>

Range(f) == {f[i] : i \in DOMAIN f}

\* \s of a regular expression, and what String.prototype.trim removes
IsSpace(c) == c \in {" ", "\t", "\n", "\r"}
\* \d of a regular expression
IsDigit(c) == c \in Range(Digits)
\* [a-z]
IsLowerLetter(c) == c \in Range(Lowers)

ToLowerChar(c) ==
    IF c \in Range(Uppers) THEN Lowers[CHOOSE i \in DOMAIN Uppers : Uppers[i] = c] ELSE c

ToUpperChar(c) ==
    IF c \in Range(Lowers) THEN Uppers[CHOOSE i \in DOMAIN Lowers : Lowers[i] = c] ELSE c

\* String.prototype.toLowerCase / toUpperCase
toLowerCase(s) == [i \in DOMAIN s |-> ToLowerChar(s[i])]
toUpperCase(s) == [i \in DOMAIN s |-> ToUpperChar(s[i])]

\* String.prototype.trim: drop leading and trailing whitespace
trim(s) ==
    LET keep == {i \in DOMAIN s : ~IsSpace(s[i])}
    IN  IF keep = {} THEN <<>>
        ELSE SubSeq(s, CHOOSE i \in keep : \A j \in keep : i <= j,
                       CHOOSE i \in keep : \A j \in keep : i >= j)

\* parseInt of a string of decimal digits
DigitVal(c) == (CHOOSE i \in DOMAIN Digits : Digits[i] = c) - 1

RECURSIVE parseInt(_)
parseInt(s) ==
    IF s = <<>> THEN 0
    ELSE 10 * parseInt(SubSeq(s, 1, Len(s) - 1)) + DigitVal(s[Len(s)])

\* Number.prototype.toString followed by padStart(2, '0'), for 0 <= n
RECURSIVE toString(_)
toString(n) ==
    IF n < 10 THEN <<Digits[n + 1]>> ELSE toString(n \div 10) \o <<Digits[(n % 10) + 1]>>

padStart2(s) == IF Len(s) < 2 THEN <<"0">> \o s ELSE s

\* All strings over the alphabet A of length at most n
RECURSIVE StringsUpTo(_, _)
StringsUpTo(A, n) ==
    IF n = 0 THEN {<<>>}
    ELSE LET shorter == StringsUpTo(A, n - 1)
         IN  shorter \cup {Append(s, c) : s \in shorter, c \in A}

(***************************************************************************)
(* Normalization functions of the Event model                              *)
(***************************************************************************)
\* The outcome of a call: the returned value, or the Error thrown
Returned(v) == [kind |-> "value", value |-> v]
Thrown(name, msg) == [kind |-> "error", name |-> name, message |-> msg]

Spaces == {" ", "\t", "\n", "\r"}
Hyphens == {"-"}

\* s.replace(/[class]+/g, r): every maximal run of characters of class becomes r
RECURSIVE ReplaceRuns(_, _, _)
ReplaceRuns(s, class, r) ==
    IF s = <<>> THEN <<>>
    ELSE IF s[1] \in class
         THEN LET rest == {i \in DOMAIN s : s[i] \notin class}
                  next == IF rest = {} THEN Len(s) + 1
                          ELSE CHOOSE i \in rest : \A j \in rest : i <= j
              IN  r \o ReplaceRuns(SubSeq(s, next, Len(s)), class, r)
         ELSE <<s[1]>> \o ReplaceRuns(Tail(s), class, r)

\* s.replace(/[^a-z0-9\s-]/g, '')
RemoveSpecial(s) ==
    SelectSeq(s, LAMBDA c : IsLowerLetter(c) \/ IsDigit(c) \/ IsSpace(c) \/ c = "-")

\* s.replace(/^-|-$/g, ''): one hyphen at the start and one at the end
StripEndHyphens(s) ==
    LET a == IF s # <<>> /\ s[1] = "-" THEN Tail(s) ELSE s
    IN  IF a # <<>> /\ a[Len(a)] = "-" THEN SubSeq(a, 1, Len(a) - 1) ELSE a

\* A slip: the runs of hyphens are not collapsed
generateSlugNoCollapse(title) ==
    StripEndHyphens(
        ReplaceRuns(RemoveSpecial(trim(toLowerCase(title))), Spaces, <<"-">>))

generateSlug(title) ==
    StripEndHyphens(
        ReplaceRuns(
            ReplaceRuns(RemoveSpecial(trim(toLowerCase(title))), Spaces, <<"-">>),
            Hyphens, <<"-">>))

\* new Date(dateString) for the date strings the model submits: the result of
\* toISOString().split('T'), or NaN for a string the host parser rejects
HostDate(dateString) ==
    CASE dateString = "2024-03-05" -> [time |-> "ok", iso |-> <<"2024-03-05", "00:00:00.000Z">>]
      [] dateString = "2024-03-05T23:30:00Z" -> [time |-> "ok", iso |-> <<"2024-03-05", "23:30:00.000Z">>]
      [] OTHER -> [time |-> "NaN"]

normalizeDate(dateString) ==
    LET date == HostDate(dateString)
    IN  IF date.time = "NaN" THEN Thrown("Error", "Invalid date format")
        ELSE Returned(date.iso[1])

\* timeString.trim().match(/^(\d{1,2}):(\d{2})(\s*(AM|PM))?$/i): the groups
\* 1, 2 and 4 of the match, or null
TimeMatch(t) ==
    LET hl == IF Len(t) >= 2 /\ t[2] = ":" THEN 1 ELSE 2
        rest == SubSeq(t, hl + 4, Len(t))
        period == SubSeq(rest, Len(rest) - 1, Len(rest))
        restOk == \/ rest = <<>>
                  \/ /\ Len(rest) >= 2
                     /\ toUpperCase(period) \in {<<"A", "M">>, <<"P", "M">>}
                     /\ \A i \in 1..(Len(rest) - 2) : IsSpace(rest[i])
    IN  IF /\ Len(t) >= hl + 3
           /\ \A i \in 1..hl : IsDigit(t[i])
           /\ t[hl + 1] = ":"
           /\ IsDigit(t[hl + 2]) /\ IsDigit(t[hl + 3])
           /\ restOk
        THEN [matched |-> TRUE, g1 |-> SubSeq(t, 1, hl), g2 |-> SubSeq(t, hl + 2, hl + 3),
              g4 |-> IF rest = <<>> THEN <<>> ELSE period]
        ELSE [matched |-> FALSE]

\* A slip: the range check on hours and minutes is missing
normalizeTimeNoRange(timeString) ==
    LET match == TimeMatch(trim(timeString))
    IN  IF ~match.matched
        THEN Thrown("Error", "Invalid time format. Use HH:MM or HH:MM AM/PM")
        ELSE LET h0 == parseInt(match.g1)
                 minutes == match.g2
                 period == toUpperCase(match.g4)
                 h1 == IF period = <<"P", "M">> /\ h0 # 12 THEN h0 + 12 ELSE h0
                 hours == IF period = <<"A", "M">> /\ h1 = 12 THEN 0 ELSE h1
             IN  Returned(padStart2(toString(hours)) \o <<":">> \o minutes)

normalizeTime(timeString) ==
    LET match == TimeMatch(trim(timeString))
    IN  IF ~match.matched
        THEN Thrown("Error", "Invalid time format. Use HH:MM or HH:MM AM/PM")
        ELSE LET h0 == parseInt(match.g1)
                 minutes == match.g2
                 period == toUpperCase(match.g4)
                 h1 == IF period = <<"P", "M">> /\ h0 # 12 THEN h0 + 12 ELSE h0
                 hours == IF period = <<"A", "M">> /\ h1 = 12 THEN 0 ELSE h1
             IN  IF hours < 0 \/ hours > 23 \/ parseInt(minutes) < 0 \/ parseInt(minutes) > 59
                 THEN Thrown("Error", "Invalid time values")
                 ELSE Returned(padStart2(toString(hours)) \o <<":">> \o minutes)

(***************************************************************************)
(* Bounds and inputs                                                       *)
(***************************************************************************)
MaxPosts == 2          \* POST requests in one behaviour
MaxEvents == 1         \* POST requests in one behaviour of the booking specification
MaxCalls == 2          \* createBooking calls in one behaviour
MaxTitleLen == 3       \* length of the titles given to generateSlug
MaxHourDigits == 2     \* digits of the hour in the strings given to normalizeTime

PostProcs == {1, 2}    \* concurrent POST invocations
BookProcs == {1, 2}    \* concurrent createBooking invocations

\* The 'title' values of the submitted forms: "A b" and "a-b" share the slug
\* "a-b", "c" has its own, "  " is empty after trimming
TitleInputs == {Str(<<"A", " ", "b">>), Str(<<"a", "-", "b">>), Str(<<"c">>), Str(<<" ", " ">>)}
\* The 'slug' field of the submitted forms: absent, or supplied by the client
SlugInputs == {None, Str(<<"M", "y", " ">>)}
\* The 'image' part of the submitted forms: absent, or a File
ImageInputs == {None, File("poster.png")}
\* The 'tags' and 'agenda' fields (JSON text)
TagsInputs == {"[\"a\"]", "oops", "\"s\""}
AgendaInputs == {"[\"a\"]", "[oops"}
DateInputs == {Txt("2024-03-05T23:30:00Z"), Txt("not a date")}
TimeInputs == {Str(<<"2", ":", "3", "0", " ", "P", "M">>), Str(<<"2", "5", ":", "0", "0">>)}
ModeInputs == {"online", "party"}

Forms == [title : TitleInputs, slug : SlugInputs, image : ImageInputs,
          tags : TagsInputs, agenda : AgendaInputs]

\* An ObjectId is modelled by a positive number; the string a caller passes
\* for it is the 24 hex digits of an ObjectId, or something else
ObjectIdString(n) == [hex24 |-> TRUE, id |-> n]
EventIdInputs ==
    {ObjectIdString(n) : n \in 1..(MaxEvents + 1)} \cup {[hex24 |-> FALSE, id |-> 0]}
EmailInputs == {Str(<<"a", "@", "b">>), Str(<<"A", "@", "b", " ">>), Str(<<"a", "b">>)}

\* The strings given to generateSlug
TitleAlphabet == {"a", "B", "1", " ", "-", "!"}
TitleStrings == StringsUpTo(TitleAlphabet, MaxTitleLen)

\* The strings given to normalizeTime: [pad] hour ':' minutes [suffix]
HourStrings == StringsUpTo({"0", "1", "2", "5"}, MaxHourDigits) \ {<<>>}
MinuteStrings == {<<"0", "0">>, <<"3", "0">>, <<"6", "0">>, <<"5">>}
SuffixStrings == {<<>>, <<" ", "P", "M">>, <<"A", "M">>, <<" ", "p", "m">>, <<" ", "X", "M">>}
TimeStrings ==
    {pad \o h \o <<":">> \o m \o x :
        pad \in {<<>>, <<" ">>}, h \in HourStrings, m \in MinuteStrings, x \in SuffixStrings}

\* The document as the collection stores it: its fields and its _id
WithId(doc, id) == [k \in DOMAIN doc \cup {"_id"} |-> IF k = "_id" THEN id ELSE doc[k]]

(***************************************************************************)
(* Event model: schema, validators, pre-save hook, unique slug index       *)
(***************************************************************************)
MaxTitleLength == 100
MaxDescriptionLength == 1000
MaxOverviewLength == 500
RequiredText == Str(<<"x">>)   \* the value of the required text fields the model holds fixed

\* JSON.parse of the JSON texts the model submits
JSONParse(text) ==
    CASE text = "[\"a\"]" -> Returned(Arr(<<"a">>))
      [] text = "[]" -> Returned(Arr(<<>>))
      [] text = "\"s\"" -> Returned(Str(<<"s">>))
      [] text = "null" -> Returned(None)
      [] OTHER -> Thrown("SyntaxError", "Unexpected token in JSON")

\* Cast of a value to a String path with trim: true; a missing value stays missing
CastTrimmed(v) == IF v.kind = "string" THEN Str(trim(v.chars)) ELSE v
\* Cast to a path of type [String]: a value that is no array is wrapped in one
CastStringArray(v) ==
    CASE v.kind = "array" -> v
      [] v.kind = "string" -> Arr(<<v.chars>>)
      [] OTHER -> v

\* new Event(obj): the schema's paths are cast and their setters applied
EventDocument(obj) ==
    [title |-> CastTrimmed(obj.title),
     slug |-> IF obj.slug.kind = "string" THEN Str(toLowerCase(trim(obj.slug.chars))) ELSE obj.slug,
     description |-> CastTrimmed(obj.description),
     overview |-> CastTrimmed(obj.overview),
     image |-> CastTrimmed(obj.image),
     venue |-> CastTrimmed(obj.venue),
     location |-> CastTrimmed(obj.location),
     date |-> obj.date,
     time |-> obj.time,
     mode |-> obj.mode,
     audience |-> CastTrimmed(obj.audience),
     organizer |-> CastTrimmed(obj.organizer),
     tags |-> CastStringArray(obj.tags),
     agenda |-> CastStringArray(obj.agenda)]

\* required: true on a String path
Required(v) == v.kind = "string" /\ v.chars # <<>>
\* required and the length validator of the array paths
NonEmptyArray(v) == v.kind = "array" /\ Len(v.items) > 0

\* The schema validation that runs before the pre-save hooks: the error, or None
EventValidationError(doc) ==
    IF /\ Required(doc.title) /\ Len(doc.title.chars) <= MaxTitleLength
       /\ Required(doc.description) /\ Len(doc.description.chars) <= MaxDescriptionLength
       /\ Required(doc.overview) /\ Len(doc.overview.chars) <= MaxOverviewLength
       /\ Required(doc.image)
       /\ Required(doc.venue)
       /\ Required(doc.location)
       /\ Required(doc.audience)
       /\ Required(doc.organizer)
       /\ doc.date.kind = "string" /\ doc.date.text # ""
       /\ Required(doc.time)
       /\ doc.mode \in {"online", "offline", "hybrid"}
       /\ NonEmptyArray(doc.agenda)
       /\ NonEmptyArray(doc.tags)
    THEN None
    ELSE Thrown("ValidationError", "Event validation failed")

\* A slip: a slug supplied by the caller is kept
EventPreSaveKeepSlug(doc) ==
    LET slug == IF doc.slug.kind = "string" THEN doc.slug
                ELSE Str(toLowerCase(trim(generateSlug(doc.title.chars))))
        date == normalizeDate(doc.date.text)
        time == normalizeTime(doc.time.chars)
    IN  IF date.kind = "error" THEN date
        ELSE IF time.kind = "error" THEN time
        ELSE Returned([doc EXCEPT !.slug = slug,
                                  !.date = [kind |-> "string", text |-> date.value],
                                  !.time = Str(time.value)])

\* EventSchema.pre('save') on a new document (isNew, so every set path is
\* modified): the document as it will be stored, or the error thrown
EventPreSave(doc) ==
    LET slug == Str(toLowerCase(trim(generateSlug(doc.title.chars))))
        date == normalizeDate(doc.date.text)
        time == normalizeTime(doc.time.chars)
    IN  IF date.kind = "error" THEN date
        ELSE IF time.kind = "error" THEN time
        ELSE Returned([doc EXCEPT !.slug = slug,
                                  !.date = [kind |-> "string", text |-> date.value],
                                  !.time = Str(time.value)])

\* A slip: the index on slug is not unique
SlugTakenNever(coll, doc) == FALSE

\* The unique index on slug: does the collection hold the key already?
SlugTaken(coll, doc) == \E e \in coll : e.slug = doc.slug

(***************************************************************************)
(* POST /api/events                                                        *)
(***************************************************************************)
\* The outcomes of await connectDB()
connectDB == {"connected", "MongooseError"}

IdlePost == [pc |-> "idle", formData |-> None, tags |-> None, agenda |-> None,
             uploadResult |-> None, doc |-> None, response |-> None, calls |-> {}]

\* NextResponse.json(body, {status}): the handler returns
Respond(l, status, body) ==
    [l EXCEPT !.pc = "done", !.response = [status |-> status, body |-> body]]

\* The catch block of POST
CreationFailed(l, e) ==
    Respond(l, 500, [message |-> "Event Creation Failed", error |-> e.message])

\* The secure_url of the n-th asset of the store
SecureUrl(n) == <<"https://res.cloudinary.com/DevEvent/">> \o toString(n)

\* A request arrives and the handler awaits connectDB()
PostConnectDB(p, forms) ==
    /\ post[p].pc = "idle"
    /\ nPosts < MaxPosts
    /\ nPosts' = nPosts + 1
    /\ \E form \in forms, db \in connectDB :
         post' = [post EXCEPT ![p] =
                    IF db = "connected"
                    THEN [IdlePost EXCEPT !.pc = "formData", !.formData = form,
                                          !.calls = {"connectDB"}]
                    ELSE CreationFailed([IdlePost EXCEPT !.formData = form],
                                        Thrown("MongooseError", "connection failed"))]
    /\ UNCHANGED <<events, bookings, assets, book, nCalls, fn, arg, out>>

\* A slip: tags and agenda are parsed before the image is looked at
ParseFormImageLast(l) ==
    LET file == l.formData.image
        tags == JSONParse(l.formData.tags)
        agenda == JSONParse(l.formData.agenda)
    IN  IF tags.kind = "error" THEN CreationFailed(l, tags)
        ELSE IF agenda.kind = "error" THEN CreationFailed(l, agenda)
        ELSE IF file = None THEN Respond(l, 400, [message |-> "Image file is required"])
        ELSE [l EXCEPT !.pc = "upload", !.tags = tags.value, !.agenda = agenda.value,
                       !.calls = @ \cup {"upload_stream"}]

\* What the handler does with the form before the upload: the image check
\* and the two JSON.parse calls
ParseForm(l) ==
    LET file == l.formData.image
        tags == JSONParse(l.formData.tags)
        agenda == JSONParse(l.formData.agenda)
    IN  IF file = None THEN Respond(l, 400, [message |-> "Image file is required"])
        ELSE IF tags.kind = "error" THEN CreationFailed(l, tags)
        ELSE IF agenda.kind = "error" THEN CreationFailed(l, agenda)
        ELSE [l EXCEPT !.pc = "upload", !.tags = tags.value, !.agenda = agenda.value,
                       !.calls = @ \cup {"upload_stream"}]

PostParseForm(p) ==
    /\ post[p].pc = "formData"
    /\ post' = [post EXCEPT ![p] = ParseForm(post[p])]
    /\ UNCHANGED <<events, bookings, assets, book, nPosts, nCalls, fn, arg, out>>

\* A slip: the upload's error is not propagated, the handler goes on
UploadRejectedGoesOn(l, error) ==
    [l EXCEPT !.pc = "create", !.uploadResult = [secure_url |-> <<>>]]

\* The upload's callback got an error: reject(error), caught by POST
UploadRejected(l, error) == CreationFailed(l, error)

\* The upload stream ends: the asset is stored and its secure_url returned,
\* or the upload fails
PostUploadEnd(p) ==
    /\ post[p].pc = "upload"
    /\ \/ LET url == SecureUrl(Cardinality(assets) + 1)
          IN  /\ assets' = assets \cup {url}
              /\ post' = [post EXCEPT ![p] =
                            [@ EXCEPT !.pc = "create", !.uploadResult = [secure_url |-> url]]]
       \/ /\ assets' = assets
          /\ post' = [post EXCEPT ![p] =
                        UploadRejected(@, Thrown("Error", "upload failed"))]
    /\ UNCHANGED <<events, bookings, book, nPosts, nCalls, fn, arg, out>>

\* The object passed to Event.create: the form's entries, image overwritten
\* with the secure_url, tags and agenda with the parsed values
EventObject(l, date, time, mode) ==
    [title |-> l.formData.title, slug |-> l.formData.slug,
     description |-> RequiredText, overview |-> RequiredText,
     image |-> Str(l.uploadResult.secure_url),
     venue |-> RequiredText, location |-> RequiredText,
     date |-> date, time |-> time, mode |-> mode,
     audience |-> RequiredText, organizer |-> RequiredText,
     tags |-> l.tags, agenda |-> l.agenda]

\* Event.create up to the insert: the document is built, validated and
\* passed through the pre-save hook
EventCreate(p) ==
    /\ post[p].pc = "create"
    /\ \E date \in DateInputs, time \in TimeInputs, mode \in ModeInputs :
         LET l == [post[p] EXCEPT !.calls = @ \cup {"Event.create"}]
             doc == EventDocument(EventObject(l, date, time, mode))
             invalid == EventValidationError(doc)
             saved == EventPreSave(doc)
         IN  post' = [post EXCEPT ![p] =
                        IF invalid # None THEN CreationFailed(l, invalid)
                        ELSE IF saved.kind = "error" THEN CreationFailed(l, saved)
                        ELSE [l EXCEPT !.pc = "insert", !.doc = saved.value]]
    /\ UNCHANGED <<events, bookings, assets, book, nPosts, nCalls, fn, arg, out>>

\* The insert of Event.create, against the unique index on slug
EventInsert(p) ==
    /\ post[p].pc = "insert"
    /\ LET l == post[p]
           stored == WithId(l.doc, Cardinality(events) + 1)
       IN  IF SlugTaken(events, stored)
           THEN /\ events' = events
                /\ post' = [post EXCEPT ![p] =
                              CreationFailed(l, Thrown("MongoServerError",
                                                       "E11000 duplicate key error: slug"))]
           ELSE /\ events' = events \cup {stored}
                /\ post' = [post EXCEPT ![p] =
                              Respond([l EXCEPT !.calls = @ \cup {"inserted"}], 201,
                                      [message |-> "Event Created Successfully",
                                       event |-> stored])]
    /\ UNCHANGED <<bookings, assets, book, nPosts, nCalls, fn, arg, out>>

\* The response is delivered and the invocation's locals are gone
PostFinish(p) ==
    /\ post[p].pc = "done"
    /\ post' = [post EXCEPT ![p] = IdlePost]
    /\ UNCHANGED <<events, bookings, assets, book, nPosts, nCalls, fn, arg, out>>

(***************************************************************************)
(* Booking model: schema, validators, pre-save hook, unique index          *)
(***************************************************************************)
MaxLabelLength == 63

IsAlnum(c) == IsLowerLetter(c) \/ c \in Range(Uppers) \/ IsDigit(c)
\* The punctuation of the local part (all but the backquote, which no input uses)
LocalChars == {".", "!", "#", "$", "%", "&", "'", "*", "+", "/", "=", "?", "^", "_",
               "{", "|", "}", "~", "-"}

\* One or more labels [a-zA-Z0-9](?:[a-zA-Z0-9-]{0,61}[a-zA-Z0-9])? joined by dots
IsDomain(d) ==
    /\ d # <<>>
    /\ \A i \in DOMAIN d : IsAlnum(d[i]) \/ d[i] \in {"-", "."}
    /\ IsAlnum(d[1]) /\ IsAlnum(d[Len(d)])
    /\ \A i \in DOMAIN d : d[i] = "." => IsAlnum(d[i - 1]) /\ IsAlnum(d[i + 1])
    /\ \A i \in DOMAIN d : i + MaxLabelLength <= Len(d) =>
            \E j \in i..(i + MaxLabelLength) : d[j] = "."

\* emailRegex.test(email) of the email validator
emailRegexTest(email) ==
    \E at \in DOMAIN email :
        /\ email[at] = "@"
        /\ at > 1
        /\ \A i \in 1..(at - 1) : IsAlnum(email[i]) \/ email[i] \in LocalChars
        /\ IsDomain(SubSeq(email, at + 1, Len(email)))

\* new Booking({eventId, slug, email}): slug is no path of the schema and is
\* dropped; email is trimmed and lowercased; eventId is cast to an ObjectId
\* when the string is one
BookingDocument(eventId, email) ==
    [eventId |-> eventId,
     email |-> IF email.kind = "string" THEN Str(toLowerCase(trim(email.chars))) ELSE email]

BookingValidationError(doc) ==
    IF /\ doc.eventId.hex24
       /\ Required(doc.email)
       /\ emailRegexTest(doc.email.chars)
    THEN None
    ELSE Thrown("ValidationError", "Booking validation failed")

EventNotFound(eventId) ==
    [kind |-> "error", name |-> "Error",
     message |-> "Event with ID ${booking.eventId} does not exist", eventId |-> eventId]

\* A slip: the hook does not look the event up
BookingPreSaveNoLookup(coll, doc) == None

\* BookingSchema.pre('save') on a new document: Event.findById(eventId);
\* the error thrown, or None
BookingPreSave(coll, doc) ==
    LET eventExists == \E e \in coll : e._id = doc.eventId.id
    IN  IF ~eventExists THEN EventNotFound(doc.eventId.id) ELSE None

\* A slip: the index on (eventId, email) is not unique
PairTakenNever(coll, doc) == FALSE

\* The unique index uniq_event_email: does the collection hold the key already?
PairTaken(coll, doc) == \E b \in coll : b.eventId = doc.eventId /\ b.email = doc.email

(***************************************************************************)
(* createBooking (lib/actions/booking.actions.ts)                          *)
(***************************************************************************)
IdleBook == [pc |-> "idle", email |-> None, doc |-> None,
             existed |-> FALSE, lookup |-> "none", persisted |-> FALSE, result |-> None]

\* The catch block of createBooking
BookingFailed(l, error) ==
    [l EXCEPT !.pc = "done", !.result = [success |-> FALSE, error |-> error]]

\* Booking.create has resolved with the stored document: the rest of the try
\* block calls the document's lean(). A document has no such method (lean is
\* a method of queries), the call throws a TypeError and the catch block runs
BookingCreated(l, stored) ==
    BookingFailed(l, Thrown("TypeError", "lean is not a function"))

\* createBooking is called: connectDB(), then Booking.create builds and
\* validates the document. existed records whether the collection held the
\* pair when Booking.create was called
BookCall(b) ==
    /\ book[b].pc = "idle"
    /\ nCalls < MaxCalls
    /\ nCalls' = nCalls + 1
    /\ \E eventId \in EventIdInputs, email \in EmailInputs, db \in connectDB :
         LET doc == BookingDocument(eventId, email)
             l == IdleBook
             invalid == BookingValidationError(doc)
         IN  book' = [book EXCEPT ![b] =
                        IF db # "connected"
                        THEN BookingFailed(l, Thrown("MongooseError", "connection failed"))
                        ELSE IF invalid # None
                        THEN BookingFailed([l EXCEPT !.doc = doc], invalid)
                        ELSE [l EXCEPT !.pc = "preSave", !.doc = doc, !.email = email,
                                       !.existed = PairTaken(bookings, doc)]]
    /\ UNCHANGED <<events, bookings, assets, post, nPosts, fn, arg, out>>

\* The pre-save hook of Booking.create looks the event up
BookingPreSaveHook(b) ==
    /\ book[b].pc = "preSave"
    /\ LET present == \E e \in events : e._id = book[b].doc.eventId.id
           l == [book[b] EXCEPT !.lookup = IF present THEN "found" ELSE "absent"]
           error == BookingPreSave(events, l.doc)
       IN  book' = [book EXCEPT ![b] =
                      IF error # None THEN BookingFailed(l, error)
                      ELSE [l EXCEPT !.pc = "insert"]]
    /\ UNCHANGED <<events, bookings, assets, post, nPosts, nCalls, fn, arg, out>>

\* The insert of Booking.create, against the unique index uniq_event_email,
\* and the rest of createBooking
BookingInsert(b) ==
    /\ book[b].pc = "insert"
    /\ LET l == book[b]
           stored == WithId(l.doc, Cardinality(bookings) + 1)
       IN  IF PairTaken(bookings, l.doc)
           THEN /\ bookings' = bookings
                /\ book' = [book EXCEPT ![b] =
                              BookingFailed(l, Thrown("MongoServerError",
                                                      "E11000 duplicate key error: uniq_event_email"))]
           ELSE /\ bookings' = bookings \cup {stored}
                /\ book' = [book EXCEPT ![b] =
                              BookingCreated([l EXCEPT !.persisted = TRUE], stored)]
    /\ UNCHANGED <<events, assets, post, nPosts, nCalls, fn, arg, out>>

\* The result is returned to the caller and the call's locals are gone
BookFinish(b) ==
    /\ book[b].pc = "done"
    /\ book' = [book EXCEPT ![b] = IdleBook]
    /\ UNCHANGED <<events, bookings, assets, post, nPosts, nCalls, fn, arg, out>>

(***************************************************************************)
(* The application                                                         *)
(***************************************************************************)
Init ==
    /\ events = {}
    /\ bookings = {}
    /\ assets = {}
    /\ post = [p \in PostProcs |-> IdlePost]
    /\ book = [b \in BookProcs |-> IdleBook]
    /\ nPosts = 0
    /\ nCalls = 0
    /\ fn = "none"
    /\ arg = <<>>
    /\ out = None

\* The POST handler, one request after the other, with every form
NextPost ==
    \/ \E p \in {1} : PostConnectDB(p, Forms)
    \/ \E p \in {1} : PostParseForm(p)
    \/ \E p \in {1} : PostUploadEnd(p)
    \/ \E p \in {1} : EventCreate(p)
    \/ \E p \in {1} : EventInsert(p)
    \/ \E p \in {1} : PostFinish(p)

SpecPost == Init /\ [][NextPost]_vars

\* Concurrent POST requests whose forms pass the handler's own checks
WellFormed == {f \in Forms : f.image # None /\ f.tags = "[\"a\"]" /\ f.agenda = "[\"a\"]"}

NextRace ==
    \/ \E p \in PostProcs : PostConnectDB(p, WellFormed)
    \/ \E p \in PostProcs : PostParseForm(p)
    \/ \E p \in PostProcs : PostUploadEnd(p)
    \/ \E p \in PostProcs : EventCreate(p)
    \/ \E p \in PostProcs : EventInsert(p)
    \/ \E p \in PostProcs : PostFinish(p)

SpecRace == Init /\ [][NextRace]_vars

\* Concurrent createBooking calls, while events are being created
Plain == {f \in WellFormed : f.slug = None /\ f.title \in {Str(<<"A", " ", "b">>), Str(<<"c">>)}}

NextBooking ==
    \/ \E p \in {1} : nPosts < MaxEvents /\ PostConnectDB(p, Plain)
    \/ \E p \in {1} : PostParseForm(p)
    \/ \E p \in {1} : PostUploadEnd(p)
    \/ \E p \in {1} : EventCreate(p)
    \/ \E p \in {1} : EventInsert(p)
    \/ \E p \in {1} : PostFinish(p)
    \/ \E b \in BookProcs : BookCall(b)
    \/ \E b \in BookProcs : BookingPreSaveHook(b)
    \/ \E b \in BookProcs : BookingInsert(b)
    \/ \E b \in BookProcs : BookFinish(b)

SpecBooking == Init /\ [][NextBooking]_vars

(***************************************************************************)
(* The normalization functions on their own                                *)
(***************************************************************************)
InitNorm ==
    /\ events = {}
    /\ bookings = {}
    /\ assets = {}
    /\ post = [p \in PostProcs |-> IdlePost]
    /\ book = [b \in BookProcs |-> IdleBook]
    /\ nPosts = 0
    /\ nCalls = 0
    /\ out = None
    /\ \/ fn = "generateSlug" /\ arg \in TitleStrings
       \/ fn = "normalizeTime" /\ arg \in TimeStrings
       \/ fn = "normalizeDate" /\ arg \in {"2024-03-05", "2024-03-05T23:30:00Z", "not a date"}

CallGenerateSlug ==
    /\ fn = "generateSlug"
    /\ out = None
    /\ out' = Returned(generateSlug(arg))
    /\ UNCHANGED <<events, bookings, assets, post, book, nPosts, nCalls, fn, arg>>

\* generateSlug is applied to the slug it returned
CallGenerateSlugAgain ==
    /\ fn = "generateSlug"
    /\ out # None
    /\ fn' = "generateSlug twice"
    /\ arg' = out.value
    /\ out' = Returned(generateSlug(out.value))
    /\ UNCHANGED <<events, bookings, assets, post, book, nPosts, nCalls>>

CallNormalizeTime ==
    /\ fn = "normalizeTime"
    /\ out = None
    /\ out' = normalizeTime(arg)
    /\ UNCHANGED <<events, bookings, assets, post, book, nPosts, nCalls, fn, arg>>

CallNormalizeDate ==
    /\ fn = "normalizeDate"
    /\ out = None
    /\ out' = normalizeDate(arg)
    /\ UNCHANGED <<events, bookings, assets, post, book, nPosts, nCalls, fn, arg>>

NextNorm ==
    \/ CallGenerateSlug
    \/ CallGenerateSlugAgain
    \/ CallNormalizeTime
    \/ CallNormalizeDate

SpecNorm == InitNorm /\ [][NextNorm]_vars

(***************************************************************************)
(* Properties                                                              *)
(***************************************************************************)
Done(l) == l.pc = "done"
UploadFailed(l) == Done(l) /\ "upload_stream" \in l.calls /\ l.uploadResult = None
DuplicateKey(e) == e.kind = "error" /\ e.name = "MongoServerError"

\* C1: an Event is persisted only after the upload of the same request has
\* succeeded, and its image is the URL that upload returned, whatever the
\* form carried under 'image'; when the upload fails Event.create is not
\* attempted, nothing is persisted and the response is 500.
C1_UploadThenPersist ==
    /\ \A e \in events : e.image.chars \in assets
    /\ \A e1, e2 \in events : e1.image = e2.image => e1 = e2
    /\ \A p \in PostProcs :
         LET l == post[p]
         IN  /\ "Event.create" \in l.calls =>
                    l.uploadResult # None /\ l.uploadResult.secure_url \in assets
             /\ "inserted" \in l.calls =>
                    /\ "Event.create" \in l.calls
                    /\ l.response.body.event \in events
                    /\ l.response.body.event.image = Str(l.uploadResult.secure_url)
             /\ UploadFailed(l) =>
                    /\ l.response.status = 500
                    /\ "Event.create" \notin l.calls
                    /\ "inserted" \notin l.calls
                    /\ l.doc = None

\* An upload fails after an earlier request has persisted its Event
C1_Witness ==
    /\ events # {}
    /\ \E p \in PostProcs : UploadFailed(post[p])

\* C2 as stated: a form without an 'image' part is answered 400 with a
\* {message} body, and neither the upload nor a store write is performed.
C2_MissingImageAlways400 ==
    \A p \in PostProcs :
        LET l == post[p]
        IN  Done(l) /\ l.formData.image = None =>
                /\ l.response.status = 400
                /\ DOMAIN l.response.body = {"message"}
                /\ l.calls \subseteq {"connectDB"}

\* C2, amended: a form without an 'image' part never leads to an upload or
\* a store write, and it is answered 400 with a {message} body whenever
\* connectDB() has succeeded (a failed connectDB() is answered 500 before
\* the form is read).
C2_MissingImage ==
    \A p \in PostProcs :
        LET l == post[p]
        IN  Done(l) /\ l.formData.image = None =>
                /\ l.calls \subseteq {"connectDB"}
                /\ l.uploadResult = None /\ l.doc = None
                /\ "connectDB" \in l.calls =>
                       /\ l.response.status = 400
                       /\ l.response.body = [message |-> "Image file is required"]
                /\ "connectDB" \notin l.calls => l.response.status = 500

\* A form without an image and with malformed tags is answered 400, after
\* an earlier request has persisted an Event and stored an asset
C2_Witness ==
    /\ events # {} /\ assets # {}
    /\ \E p \in PostProcs :
         /\ Done(post[p])
         /\ post[p].formData.image = None
         /\ post[p].formData.tags = "oops"
         /\ post[p].response.status = 400

\* Is the JSON text something else than an array of strings?
Malformed(text) ==
    LET parsed == JSONParse(text)
    IN  parsed.kind = "error" \/ parsed.value.kind # "array"

\* C3 as stated: when 'tags' or 'agenda' is not valid structured data (and
\* the handler gets as far as reading them), the response is 400 with a
\* {message} body, nothing is uploaded and no Event is persisted.
C3_MalformedIs400 ==
    \A p \in PostProcs :
        LET l == post[p]
        IN  /\ Done(l) /\ "connectDB" \in l.calls /\ l.formData.image # None
            /\ Malformed(l.formData.tags) \/ Malformed(l.formData.agenda)
            => /\ l.response.status = 400
               /\ DOMAIN l.response.body = {"message"}
               /\ "upload_stream" \notin l.calls
               /\ "inserted" \notin l.calls

\* C10: every persisted Event has slug = generateSlug(title); a 'slug' field
\* of the form is never stored.
C10_SlugFromTitle ==
    \A e \in events : e.slug = Str(generateSlug(e.title.chars))

\* An Event was persisted from a form that supplied its own slug
C10_Witness ==
    \E p \in PostProcs :
        /\ "inserted" \in post[p].calls
        /\ post[p].formData.slug # None
        /\ post[p].response.body.event.slug # post[p].formData.slug
        /\ post[p].response.body.event.slug.chars # <<>>

SameSlug(e, doc) == e.slug = doc.slug

\* C6: no two persisted Events share a slug; an insert whose slug is
\* already there fails with the duplicate-key error and persists nothing,
\* an insert whose slug is new succeeds; of two concurrent requests with
\* the same slug exactly one Event is in the collection and at most one of
\* the two persisted it.
C6_UniqueSlug ==
    /\ \A e1, e2 \in events : e1.slug = e2.slug => e1 = e2
    /\ \A p \in PostProcs :
         LET l == post[p]
         IN  Done(l) /\ l.doc # None =>
               /\ Cardinality({e \in events : SameSlug(e, l.doc)}) = 1
               /\ \/ /\ "inserted" \in l.calls
                     /\ l.response.status = 201
                     /\ l.response.body.event \in events
                  \/ /\ "inserted" \notin l.calls
                     /\ l.response.status = 500
                     /\ l.response.body.error = "E11000 duplicate key error: slug"
    /\ \A p, q \in PostProcs :
         /\ p # q /\ post[p].doc # None /\ post[q].doc # None
         /\ SameSlug(post[p].doc, post[q].doc)
         => ~("inserted" \in post[p].calls /\ "inserted" \in post[q].calls)

\* Two concurrent requests with different titles and the same slug have
\* both returned: one is persisted, the other failed with the duplicate key
C6_Witness ==
    \E p, q \in PostProcs :
        /\ p # q /\ Done(post[p]) /\ Done(post[q])
        /\ post[p].formData.title # post[q].formData.title
        /\ post[p].response.status = 201
        /\ post[q].response.status = 500
        /\ post[q].doc # None
        /\ SameSlug(post[p].doc, post[q].doc)

SamePair(a, b) == a.eventId = b.eventId /\ a.email = b.email

\* C4: the Booking collection holds at most one Booking per (eventId,
\* email), emails being stored and compared trimmed and lowercased; a
\* creation whose pair is already there fails with the duplicate-key error
\* and adds nothing; of two concurrent creations of one pair at most one is
\* persisted, exactly one when no third call is involved.
C4_UniqueBooking ==
    /\ \A b1, b2 \in bookings : SamePair(b1, b2) => b1 = b2
    /\ \A b1 \in bookings : b1.email.chars = toLowerCase(trim(b1.email.chars))
    /\ \A c \in BookProcs :
         LET l == book[c]
         IN  /\ Done(l) /\ l.existed => DuplicateKey(l.result.error) /\ ~l.persisted
             /\ Done(l) /\ l.lookup = "found" =>
                   /\ Cardinality({b \in bookings : SamePair(b, l.doc)}) = 1
                   /\ l.persisted \/ DuplicateKey(l.result.error)
                   /\ ~(l.persisted /\ DuplicateKey(l.result.error))
    /\ \A c, d \in BookProcs :
         /\ c # d /\ book[c].lookup = "found" /\ book[d].lookup = "found"
         /\ Done(book[c]) /\ Done(book[d])
         /\ SamePair(book[c].doc, book[d].doc)
         => /\ ~(book[c].persisted /\ book[d].persisted)
            /\ nCalls = 2 => book[c].persisted \/ book[d].persisted

\* Two concurrent calls whose emails differ only in case and padding have
\* both returned: one is persisted, the other failed with the duplicate key
C4_Witness ==
    \E c, d \in BookProcs :
        /\ c # d /\ Done(book[c]) /\ Done(book[d])
        /\ ~book[c].existed /\ ~book[d].existed
        /\ book[c].email # book[d].email
        /\ book[c].persisted
        /\ DuplicateKey(book[d].result.error)

\* C5: a creation whose eventId names no Event at the pre-save lookup fails
\* with 'Event with ID ... does not exist' and persists no Booking; every
\* persisted Booking's eventId names an Event of the collection.
C5_EventMustExist ==
    /\ \A b1 \in bookings : \E e \in events : e._id = b1.eventId.id
    /\ \A c \in BookProcs :
         LET l == book[c]
         IN  l.lookup = "absent" =>
               /\ Done(l)
               /\ ~l.persisted
               /\ l.result = [success |-> FALSE, error |-> EventNotFound(l.doc.eventId.id)]

\* A call failed on the lookup although an Event and a Booking exist
C5_Witness ==
    /\ bookings # {}
    /\ \E c \in BookProcs : book[c].lookup = "absent" /\ Done(book[c])

\* C7 as stated: createBooking returns {success: true, booking} exactly
\* when its call persisted a Booking, and {success: false, error} exactly
\* when it persisted none.
C7_TaggedResult ==
    \A c \in BookProcs :
        LET l == book[c]
        IN  Done(l) =>
              /\ l.result.success <=> l.persisted
              /\ l.result.success => DOMAIN l.result = {"success", "booking"}
              /\ ~l.result.success => DOMAIN l.result = {"success", "error"}

TwentyFive == <<"2", "5", ":", "0", "0">>

\* C8 as stated: normalizeTime("25:00") fails with 'Invalid time format.
\* Use HH:MM or HH:MM AM/PM'.
C8_InvalidFormat ==
    fn = "normalizeTime" /\ arg = TwentyFive /\ out # None =>
        out = Thrown("Error", "Invalid time format. Use HH:MM or HH:MM AM/PM")

\* C8, amended: normalizeTime("25:00") fails with 'Invalid time values':
\* the string matches the pattern and the range check rejects the hour.
C8_InvalidValues ==
    fn = "normalizeTime" /\ arg = TwentyFive /\ out # None =>
        out = Thrown("Error", "Invalid time values")

\* normalizeTime("25:00") has been evaluated
C8_Witness == fn = "normalizeTime" /\ arg = TwentyFive /\ out # None

\* A slug: empty, or runs of [a-z0-9] separated by single hyphens
WellFormedSlug(s) ==
    /\ \A i \in DOMAIN s : IsLowerLetter(s[i]) \/ IsDigit(s[i]) \/ s[i] = "-"
    /\ s # <<>> => s[1] # "-" /\ s[Len(s)] # "-"
    /\ \A i \in 1..(Len(s) - 1) : ~(s[i] = "-" /\ s[i + 1] = "-")

\* C9: generateSlug(generateSlug(t)) = generateSlug(t), and every output is
\* empty or made of [a-z0-9] runs separated by single hyphens.
C9_SlugIdempotent ==
    /\ fn = "generateSlug twice" => out.value = arg
    /\ fn \in {"generateSlug", "generateSlug twice"} /\ out # None => WellFormedSlug(out.value)

\* generateSlug has been applied to a slug of two runs that it returned
C9_Witness ==
    /\ fn = "generateSlug twice"
    /\ \E i \in DOMAIN out.value : out.value[i] = "-"

====
